---- MODULE Spec2Model ----
(***************************************************************************)
(* PharmAccess Explorer: the App shell and the MapView component           *)
(* (frontend/src/App.tsx).  The model covers the token gate of App, the    *)
(* mount / retry / cleanup lifecycle of MapView's effect, the map          *)
(* instances it constructs, and the interaction handlers registered on a   *)
(* map instance when it has loaded (hover tooltip, click popup, cluster    *)
(* click with its asynchronous expansion-zoom callback, cursor, WebGL      *)
(* context events) together with the configured clusterer threshold.       *)
(***************************************************************************)
EXTENDS Integers, Sequences, FiniteSets, TLC

(* ------------------------------ bounds --------------------------------- *)
\* map instances one MapView may construct over its life
MaxMaps == 2
\* popups constructed by clicks on single points
MaxPopups == 2
\* cluster clicks (expansion-zoom requests) issued
MaxRequests == 2
\* data-source reloads counted per map instance
MaxReloads == 2

\* zoom levels the clusterer is evaluated at: 0..MaxZoomLevel
MaxZoomLevel == 14

\* largest point_count of a cluster the paint expressions are evaluated for
MaxPointCount == 800

MapIds == 1..MaxMaps

(* --------------------------- program constants ------------------------- *)
\* values import.meta.env.VITE_MAPBOX_ACCESS_TOKEN can take
TokenValues == {"undefined", "", "pk.token"}
\* offsetWidth / offsetHeight of the container element
DimValues == {0, 800}
\* zoom: 4 in the Map constructor options
InitialZoom == 4
\* clusterMaxZoom: 12
clusterMaxZoom == 12
\* clusterRadius: 50
clusterRadius == 50
\* center: [-98.5795, 39.8283]; coordinates are modelled in one dimension
InitialCenter == -98
\* no cluster has been clicked yet
NoClick == [cluster_id |-> 0, coordinates |-> 0]
\* the clusterer has not evaluated its input yet
NotClustered == [aggregates |-> {{-1}}, singles |-> {-1}]
\* the value standing for an undefined / null zoom in the resolver callback
NoZoom == -1
\* the zoom the clusterer index reports for each cluster id
ExpansionZoomOf == <<13, 0>>
\* zooms the expansion-zoom resolver may report
ExpansionZooms == {ExpansionZoomOf[i] : i \in DOMAIN ExpansionZoomOf}
\* coordinates of the pharmacies an event may refer to
Pharmacies == {0, 10}
\* coordinates a loaded data set may hold
DataCoordinates == {0, 10, 40, 5000}
\* cluster features a click on the 'clusters' layer may carry
ClusterFeatures == {[cluster_id |-> 1, coordinates |-> 5],
                    [cluster_id |-> 2, coordinates |-> 300]}
\* point features an event on the 'unclustered-point' layer may carry
PointFeatures == {[coordinates |-> c] : c \in Pharmacies}

\* what a property of a feature may hold: a missing key, null, the empty
\* string, or a text
PropValues(text) == {"undefined", "null", "", text}
\* feature.properties || {} of a point feature
Properties ==
    [name : PropValues("CVS"),
     full_address : PropValues("9 Elm Rd, Dayton, OH"),
     address : PropValues("1 Main St"),
     city : PropValues("Springfield"),
     state : PropValues("OH")]
\* feature.properties || {}: a feature without properties has no key at all
EmptyProperties ==
    [name |-> "undefined", full_address |-> "undefined", address |-> "undefined",
     city |-> "undefined", state |-> "undefined"]
\* no popup content has been built yet
NoContent == [name |-> "", address |-> ""]
\* the point_count of a cluster feature (a cluster holds two points or more)
PointCounts == 2..MaxPointCount
\* the paint properties have not been evaluated yet
NoStyle == [color |-> "", radius |-> 0]

\* a layer event: e.features is undefined, empty, or holds the feature
EventsOf(fs) ==
    {[hasFeatures |-> FALSE, features |-> <<>>],
     [hasFeatures |-> TRUE, features |-> <<>>]}
    \cup {[hasFeatures |-> TRUE, features |-> <<f>>] : f \in fs}

\* the callback arguments (err, zoom) of getClusterExpansionZoom(id, ...):
\* an error, no zoom (the id is stale), or the zoom of the cluster
Outcomes(id) ==
    {[err |-> TRUE, zoom |-> NoZoom],
     [err |-> FALSE, zoom |-> NoZoom],
     [err |-> FALSE, zoom |-> ExpansionZoomOf[id]]}

VARIABLES
    MAPBOX_TOKEN,   \* the module constant read from the environment
    screen,         \* what App rendered: "none", "error" or "map"
    phase,          \* MapView: "init", "mounted", "rerun" or "unmounted"
    containerW,     \* mapContainer.current.offsetWidth
    containerH,     \* mapContainer.current.offsetHeight
    mapRef,         \* map.current: 0 for null, else the instance id
    mapGen,         \* number of mapboxgl.Map instances constructed
    mapState,       \* per instance: "none", "created", "loaded", "removed"
    builtSize,      \* per instance: container <<width, height>> at construction
    timers,         \* number of pending setTimeout retry timers
    cleanup,        \* cleanup returned by the last effect run
    contextLost,    \* per instance: WebGL context currently lost
    reloads,        \* per instance: calls of pharmaciesSource.reload()
    popups,         \* popups attached to a map: [inst, anchor, map]
    popupGen,       \* number of click popups constructed
    cursor,         \* per instance: canvas style.cursor
    pointerIn,      \* per instance: the layers the pointer is inside of
    requests,       \* getClusterExpansionZoom calls in flight: [seq, map, cluster_id, coordinates]
    reqGen,         \* number of cluster clicks that issued a request
    lastClick,      \* the feature of the latest such click
    view,           \* per instance: target [center, zoom] of the view
    easeCount,      \* per instance: calls of easeTo
    cdata,          \* clusterer input: the coordinates of the loaded points
    czoom,          \* clusterer input: the zoom the clusters are evaluated at
    cout,           \* clusterer output: [aggregates, singles], or NotClustered
    props,          \* popup content input: the properties of a point feature
    content,        \* popup content built by the hover and by the click handler
    point_count,    \* paint input: the point_count of a cluster feature
    style           \* paint output: [color, radius] of the cluster circle

lifeVars == <<MAPBOX_TOKEN, screen, phase, containerW, containerH>>
mapVars == <<mapRef, mapGen, mapState, builtSize>>
effectVars == <<timers, cleanup>>
ctxVars == <<contextLost, reloads>>
popupVars == <<popups, popupGen>>
navVars == <<requests, reqGen, lastClick, view, easeCount>>
clusterVars == <<cdata, czoom, cout>>
contentVars == <<props, content>>
styleVars == <<point_count, style>>
\* the inputs and outputs of the functions that are checked on their own
funVars == <<clusterVars, contentVars, styleVars>>
vars == <<lifeVars, mapVars, effectVars, ctxVars, popupVars, cursor, pointerIn,
          navVars, funVars>>

\* center: [-98.5795, 39.8283], zoom: 4
InitialView == [center |-> InitialCenter, zoom |-> InitialZoom]

\* JavaScript truthiness of the token: undefined and "" are falsy
Truthy(t) == t \notin {"undefined", ""}

\* mapContainer.current is the div while the component is mounted, else null
mapContainerCurrent == phase = "mounted"

Init ==
    /\ MAPBOX_TOKEN \in TokenValues
    /\ screen = "none"
    /\ phase = "init"
    /\ containerW \in DimValues
    /\ containerH \in DimValues
    /\ mapRef = 0
    /\ mapGen = 0
    /\ mapState = [m \in MapIds |-> "none"]
    /\ builtSize = [m \in MapIds |-> <<0, 0>>]
    /\ timers = 0
    /\ cleanup = "none"
    /\ contextLost = [m \in MapIds |-> FALSE]
    /\ reloads = [m \in MapIds |-> 0]
    /\ popups = {}
    /\ popupGen = 0
    /\ cursor = [m \in MapIds |-> ""]
    /\ pointerIn = [m \in MapIds |-> {}]
    /\ requests = {}
    /\ reqGen = 0
    /\ lastClick = NoClick
    /\ view = [m \in MapIds |-> InitialView]
    /\ easeCount = [m \in MapIds |-> 0]
    /\ cdata = {}
    /\ czoom = InitialZoom
    /\ cout = NotClustered
    /\ props = EmptyProperties
    /\ content = [hover |-> NoContent, click |-> NoContent]
    /\ point_count = 2
    /\ style = NoStyle

(* ------------------------------- App ----------------------------------- *)
\* function App(): the error screen when the token is falsy, else the page
\* holding <MapView/>
AppScreen_undefinedOnly(t) == IF t = "undefined" THEN "error" ELSE "map"

AppScreen(t) == IF ~Truthy(t) THEN "error" ELSE "map"

App ==
    /\ UNCHANGED funVars
    /\ screen = "none"
    /\ screen' = AppScreen(MAPBOX_TOKEN)
    /\ UNCHANGED <<MAPBOX_TOKEN, phase, containerW, containerH>>
    /\ UNCHANGED <<mapVars, effectVars, ctxVars, popupVars, cursor, pointerIn, navVars>>

\* the host surface changes size (layout, attachment).  The sizes are read
\* only by the effect body and the retry timer, and only while map.current
\* is null and the component is not yet unmounted; a resize at another time
\* is not observable by the program and is left out
Resize ==
    /\ UNCHANGED funVars
    /\ phase \in {"init", "mounted"}
    /\ mapRef = 0
    /\ \E w \in DimValues, h \in DimValues :
         /\ <<w, h>> # <<containerW, containerH>>
         /\ containerW' = w
         /\ containerH' = h
    /\ UNCHANGED <<MAPBOX_TOKEN, screen, phase>>
    /\ UNCHANGED <<mapVars, effectVars, ctxVars, popupVars, cursor, pointerIn, navVars>>

(* --------------------------- MapView effect ---------------------------- *)
\* a re-run of the effect executes its cleanup and its body back to back;
\* every other callback runs as a task of its own, never in between
Task == phase # "rerun"

\* new mapboxgl.Map({...}) assigned to map.current
Construct(id) ==
    /\ mapGen < MaxMaps
    /\ mapRef' = id
    /\ mapGen' = id
    /\ mapState' = [mapState EXCEPT ![id] = "created"]
    /\ builtSize' = [builtSize EXCEPT ![id] = <<containerW, containerH>>]
    /\ view' = [view EXCEPT ![id] = InitialView]

\* function initializeMap(), with attached = (mapContainer.current # null)
initializeMap(attached) ==
    IF ~attached \/ mapRef # 0
    THEN UNCHANGED <<mapVars, view>>
    ELSE Construct(mapGen + 1)

\* the zero-dimension test of the effect body
NoDimensions == containerW = 0 \/ containerH = 0

HasDimensions_either == containerW > 0 \/ containerH > 0

\* the surface has a size
HasSize == containerW # 0 /\ containerH # 0

\* the test made by the retry timer callback
HasDimensions == containerW > 0 /\ containerH > 0

\* body of the useEffect callback, with attached = (mapContainer.current # null)
EffectBody(attached) ==
    IF ~attached \/ mapRef # 0
    THEN /\ cleanup' = "none"
         /\ UNCHANGED <<timers, mapVars, view>>
    ELSE IF NoDimensions
    THEN /\ timers' = timers + 1
         /\ cleanup' = "clearTimeout"
         /\ UNCHANGED <<mapVars, view>>
    ELSE /\ initializeMap(TRUE)
         /\ cleanup' = "removeMap"
         /\ UNCHANGED timers

\* map.current.remove(): the instance is torn down with its canvas, its view
\* and the popups attached to it; its requests in flight stay in flight
Removed(f, m, v) == [f EXCEPT ![m] = v]

RunCleanup_keepTimer ==
    /\ timers' = timers
    /\ IF cleanup = "removeMap" /\ mapRef # 0
       THEN /\ mapState' = Removed(mapState, mapRef, "removed")
            /\ mapRef' = 0
            /\ popups' = {p \in popups : p.map # mapRef}
            /\ cursor' = Removed(cursor, mapRef, "")
            /\ pointerIn' = Removed(pointerIn, mapRef, {})
            /\ contextLost' = Removed(contextLost, mapRef, FALSE)
            /\ view' = Removed(view, mapRef, InitialView)
       ELSE UNCHANGED <<mapState, mapRef, popups, cursor, pointerIn, contextLost,
                        view>>
    /\ UNCHANGED <<mapGen, builtSize, reloads, popupGen, requests, reqGen, lastClick,
                   easeCount>>

RunCleanup_dropRef ==
    /\ timers' = IF cleanup = "clearTimeout" /\ timers > 0 THEN timers - 1 ELSE timers
    /\ mapRef' = IF cleanup = "removeMap" THEN 0 ELSE mapRef
    /\ UNCHANGED <<mapState, popups, cursor, pointerIn, contextLost, view>>
    /\ UNCHANGED <<mapGen, builtSize, reloads, popupGen, requests, reqGen, lastClick,
                   easeCount>>

\* the cleanup function returned by the last effect run:
\*   "none"          the early return (undefined)
\*   "clearTimeout"  () => clearTimeout(timer)
\*   "removeMap"     () => { if (map.current) { map.current.remove(); map.current = null } }
RunCleanup ==
    /\ timers' = IF cleanup = "clearTimeout" /\ timers > 0 THEN timers - 1 ELSE timers
    /\ IF cleanup = "removeMap" /\ mapRef # 0
       THEN /\ mapState' = Removed(mapState, mapRef, "removed")
            /\ mapRef' = 0
            /\ popups' = {p \in popups : p.map # mapRef}
            /\ cursor' = Removed(cursor, mapRef, "")
            /\ pointerIn' = Removed(pointerIn, mapRef, {})
            /\ contextLost' = Removed(contextLost, mapRef, FALSE)
            /\ view' = Removed(view, mapRef, InitialView)
       ELSE UNCHANGED <<mapState, mapRef, popups, cursor, pointerIn, contextLost,
                        view>>
    /\ UNCHANGED <<mapGen, builtSize, reloads, popupGen, requests, reqGen, lastClick,
                   easeCount>>

\* React mounts <MapView/>: the ref is attached and the effect runs once
Mount ==
    /\ UNCHANGED funVars
    /\ screen = "map"
    /\ phase = "init"
    /\ phase' = "mounted"
    /\ EffectBody(TRUE)
    /\ UNCHANGED <<MAPBOX_TOKEN, screen, containerW, containerH>>
    /\ UNCHANGED <<ctxVars, popupVars, cursor, pointerIn, requests, reqGen, lastClick, easeCount>>

\* the effect is re-run (dependency [mapboxToken] changed, or a development
\* double invocation): first the previous cleanup ...
EffectCleanup ==
    /\ UNCHANGED funVars
    /\ phase = "mounted"
    /\ phase' = "rerun"
    /\ RunCleanup
    /\ cleanup' = "none"
    /\ UNCHANGED <<MAPBOX_TOKEN, screen, containerW, containerH>>

\* ... then, in the same task, the effect body again
EffectRun ==
    /\ UNCHANGED funVars
    /\ phase = "rerun"
    /\ phase' = "mounted"
    /\ EffectBody(TRUE)
    /\ UNCHANGED <<MAPBOX_TOKEN, screen, containerW, containerH>>
    /\ UNCHANGED <<ctxVars, popupVars, cursor, pointerIn, requests, reqGen, lastClick, easeCount>>

\* React unmounts <MapView/>: the cleanup runs and the ref is detached
Unmount ==
    /\ UNCHANGED funVars
    /\ phase = "mounted"
    /\ phase' = "unmounted"
    /\ RunCleanup
    /\ cleanup' = "none"
    /\ UNCHANGED <<MAPBOX_TOKEN, screen, containerW, containerH>>

\* the callback of setTimeout(..., 100)
TimerFire ==
    /\ UNCHANGED funVars
    /\ Task
    /\ timers > 0
    /\ timers' = timers - 1
    /\ IF mapContainerCurrent /\ HasDimensions
       THEN initializeMap(mapContainerCurrent)
       ELSE UNCHANGED <<mapVars, view>>
    /\ UNCHANGED <<lifeVars, cleanup, ctxVars, popupVars, cursor, pointerIn>>
    /\ UNCHANGED <<requests, reqGen, lastClick, easeCount>>

(* ------------------------ map instance events -------------------------- *)
\* handlers are attached to the instance while it is constructed and not removed
Alive(m) == mapState[m] \in {"created", "loaded"}

\* currentMap.getSource('pharmacies') is defined once 'load' has added it
SourceExists(m) == mapState[m] = "loaded"

\* currentMap.on('load', ...): source, layers, the managed hover popup and
\* the interaction handlers are set up
MapLoad(m) ==
    /\ UNCHANGED funVars
    /\ Task
    /\ mapState[m] = "created"
    /\ mapState' = [mapState EXCEPT ![m] = "loaded"]
    /\ UNCHANGED <<mapRef, mapGen, builtSize>>
    /\ UNCHANGED <<lifeVars, effectVars, ctxVars, popupVars, cursor, pointerIn, navVars>>

\* currentMap.on('webglcontextlost', ...): only logs
ContextLost(m) ==
    /\ UNCHANGED funVars
    /\ Task
    /\ Alive(m)
    /\ ~contextLost[m]
    /\ reloads[m] < MaxReloads
    /\ contextLost' = [contextLost EXCEPT ![m] = TRUE]
    /\ UNCHANGED reloads
    /\ UNCHANGED <<lifeVars, mapVars, effectVars, popupVars, cursor, pointerIn, navVars>>

ContextRestored_noReload(m) ==
    /\ UNCHANGED funVars
    /\ Task
    /\ Alive(m)
    /\ contextLost[m]
    /\ contextLost' = [contextLost EXCEPT ![m] = FALSE]
    /\ UNCHANGED reloads
    /\ UNCHANGED <<lifeVars, mapVars, effectVars, popupVars, cursor, pointerIn, navVars>>

\* currentMap.on('webglcontextrestored', ...)
ContextRestored(m) ==
    /\ UNCHANGED funVars
    /\ Task
    /\ Alive(m)
    /\ contextLost[m]
    /\ contextLost' = [contextLost EXCEPT ![m] = FALSE]
    /\ reloads' = IF SourceExists(m)
                  THEN [reloads EXCEPT ![m] = @ + 1]
                  ELSE reloads
    /\ UNCHANGED <<lifeVars, mapVars, effectVars, popupVars, cursor, pointerIn, navVars>>

(* ------------------------- interaction handlers ------------------------ *)
\* !e.features || e.features.length === 0
NoFeatures(e) == ~e.hasFeatures \/ Len(e.features) = 0

\* const popup = new mapboxgl.Popup({closeButton: false, closeOnClick: false}),
\* one instance per load callback
HoverPopup(m) == <<"hover", m>>

\* popup.setLngLat(c).addTo(map): one instance is attached at one place
AddTo(pops, inst, c, m) ==
    {p \in pops : p.inst # inst} \cup {[inst |-> inst, anchor |-> c, map |-> m]}

\* popup.remove()
Remove(pops, inst) == {p \in pops : p.inst # inst}

\* the pointer comes inside / goes outside of a layer of map m
Enters(m, layer) == [pointerIn EXCEPT ![m] = @ \cup {layer}]
Leaves(m, layer) == [pointerIn EXCEPT ![m] = @ \ {layer}]

MouseEnterPoint_newPopup(m, e) ==
    /\ UNCHANGED funVars
    /\ Task
    /\ mapState[m] = "loaded"
    /\ popups' = IF NoFeatures(e)
                 THEN popups
                 ELSE AddTo(popups, <<"hover", e.features[1].coordinates>>,
                            e.features[1].coordinates, m)
    /\ cursor' = [cursor EXCEPT ![m] = "pointer"]
    /\ pointerIn' = Enters(m, "unclustered-point")
    /\ UNCHANGED <<lifeVars, mapVars, effectVars, ctxVars, popupGen, navVars>>

MouseEnterPoint_removeOnStale(m, e) ==
    /\ UNCHANGED funVars
    /\ Task
    /\ mapState[m] = "loaded"
    /\ popups' = IF NoFeatures(e)
                 THEN Remove(popups, HoverPopup(m))
                 ELSE AddTo(popups, HoverPopup(m), e.features[1].coordinates, m)
    /\ cursor' = [cursor EXCEPT ![m] = "pointer"]
    /\ pointerIn' = Enters(m, "unclustered-point")
    /\ UNCHANGED <<lifeVars, mapVars, effectVars, ctxVars, popupGen, navVars>>

\* 'mouseenter' on 'unclustered-point': the tooltip handler and the cursor handler
MouseEnterPoint(m, e) ==
    /\ UNCHANGED funVars
    /\ Task
    /\ mapState[m] = "loaded"
    /\ popups' = IF NoFeatures(e)
                 THEN popups
                 ELSE AddTo(popups, HoverPopup(m), e.features[1].coordinates, m)
    /\ cursor' = [cursor EXCEPT ![m] = "pointer"]
    /\ pointerIn' = Enters(m, "unclustered-point")
    /\ UNCHANGED <<lifeVars, mapVars, effectVars, ctxVars, popupGen, navVars>>

MouseLeavePoint_removeAll(m) ==
    /\ UNCHANGED funVars
    /\ Task
    /\ mapState[m] = "loaded"
    /\ "unclustered-point" \in pointerIn[m]
    /\ popups' = {p \in popups : p.map # m}
    /\ cursor' = [cursor EXCEPT ![m] = ""]
    /\ pointerIn' = Leaves(m, "unclustered-point")
    /\ UNCHANGED <<lifeVars, mapVars, effectVars, ctxVars, popupGen, navVars>>

MouseLeavePoint_keepTooltip(m) ==
    /\ UNCHANGED funVars
    /\ Task
    /\ mapState[m] = "loaded"
    /\ "unclustered-point" \in pointerIn[m]
    /\ popups' = popups
    /\ cursor' = [cursor EXCEPT ![m] = ""]
    /\ pointerIn' = Leaves(m, "unclustered-point")
    /\ UNCHANGED <<lifeVars, mapVars, effectVars, ctxVars, popupGen, navVars>>

\* 'mouseleave' on 'unclustered-point': the tooltip handler and the cursor
\* handler; the event fires when the pointer goes out of the layer
MouseLeavePoint(m) ==
    /\ UNCHANGED funVars
    /\ Task
    /\ mapState[m] = "loaded"
    /\ "unclustered-point" \in pointerIn[m]
    /\ popups' = Remove(popups, HoverPopup(m))
    /\ cursor' = [cursor EXCEPT ![m] = ""]
    /\ pointerIn' = Leaves(m, "unclustered-point")
    /\ UNCHANGED <<lifeVars, mapVars, effectVars, ctxVars, popupGen, navVars>>

\* 'mouseenter' on 'clusters'
MouseEnterCluster(m) ==
    /\ UNCHANGED funVars
    /\ Task
    /\ mapState[m] = "loaded"
    /\ cursor' = [cursor EXCEPT ![m] = "pointer"]
    /\ pointerIn' = Enters(m, "clusters")
    /\ UNCHANGED <<lifeVars, mapVars, effectVars, ctxVars, popupVars, navVars>>

\* 'mouseleave' on 'clusters'; the event fires when the pointer goes out of
\* the layer
MouseLeaveCluster(m) ==
    /\ UNCHANGED funVars
    /\ Task
    /\ mapState[m] = "loaded"
    /\ "clusters" \in pointerIn[m]
    /\ cursor' = [cursor EXCEPT ![m] = ""]
    /\ pointerIn' = Leaves(m, "clusters")
    /\ UNCHANGED <<lifeVars, mapVars, effectVars, ctxVars, popupVars, navVars>>

closeOnClick_never(inst) == FALSE

\* the closeOnClick option of a popup: false for the managed hover popup,
\* the default (true) for new mapboxgl.Popup() of the click handler
closeOnClick(inst) == inst[1] = "click"

\* the popups on map m that a click on the map closes
ClosedOnClick(m) == {p \in popups : p.map = m /\ closeOnClick(p.inst)}

\* the 'preclick' listener that addTo registers for a closeOnClick popup: it
\* runs at every click on the map, before the 'click' listeners, and closes
\* the popup
PreClick(m) ==
    /\ UNCHANGED funVars
    /\ Task
    /\ mapState[m] = "loaded"
    /\ ClosedOnClick(m) # {}
    /\ popups' = popups \ ClosedOnClick(m)
    /\ UNCHANGED <<lifeVars, mapVars, effectVars, ctxVars, popupGen, cursor, pointerIn,
                   navVars>>

\* a 'click' listener of map m runs when the 'preclick' listeners have run
PreClicked(m) == ClosedOnClick(m) = {}

\* 'click' on 'unclustered-point': new mapboxgl.Popup() added to the map
ClickPoint(m, e) ==
    /\ UNCHANGED funVars
    /\ Task
    /\ mapState[m] = "loaded"
    /\ PreClicked(m)
    /\ IF NoFeatures(e)
       THEN UNCHANGED popupVars
       ELSE /\ popupGen < MaxPopups
            /\ popupGen' = popupGen + 1
            /\ popups' = AddTo(popups, <<"click", popupGen + 1>>,
                               e.features[1].coordinates, m)
    /\ UNCHANGED <<lifeVars, mapVars, effectVars, ctxVars, cursor, pointerIn, navVars>>

\* the user dismisses a click popup with its close button (closeButton is a
\* default of new mapboxgl.Popup()); the hover popup has none
ClosePopup(p) ==
    /\ UNCHANGED funVars
    /\ Task
    /\ p \in popups
    /\ p.inst[1] = "click"
    /\ popups' = Remove(popups, p.inst)
    /\ UNCHANGED <<lifeVars, mapVars, effectVars, ctxVars, popupGen, cursor, pointerIn,
                   navVars>>

\* 'click' on 'clusters': source.getClusterExpansionZoom(clusterId, callback)
ClickCluster(m, e) ==
    /\ UNCHANGED funVars
    /\ Task
    /\ mapState[m] = "loaded"
    /\ PreClicked(m)
    /\ IF NoFeatures(e)
       THEN UNCHANGED <<requests, reqGen, lastClick>>
       ELSE /\ reqGen < MaxRequests
            /\ reqGen' = reqGen + 1
            /\ lastClick' = e.features[1]
            /\ requests' = requests \cup
                   {[seq |-> reqGen + 1, map |-> m,
                     cluster_id |-> e.features[1].cluster_id,
                     coordinates |-> e.features[1].coordinates]}
    /\ UNCHANGED <<view, easeCount>>
    /\ UNCHANGED <<lifeVars, mapVars, effectVars, ctxVars, popupVars, cursor, pointerIn>>

Unresolved_falsy(o) == o.err \/ o.zoom = NoZoom \/ o.zoom = 0

Unresolved_errOnly(o) == o.err

\* err || zoom === undefined || zoom === null
Unresolved(o) == o.err \/ o.zoom = NoZoom

\* currentMap.easeTo({center, zoom}): the new target replaces the current one;
\* a removed instance has no view left to move
easeTo(m, c, z) ==
    /\ easeCount' = [easeCount EXCEPT ![m] = @ + 1]
    /\ view' = IF mapState[m] = "removed"
               THEN view
               ELSE [view EXCEPT ![m] = [center |-> c, zoom |-> z]]


\* the callback (err, zoom) => {...} of request r completes with outcome o
ExpansionZoomCallback(r, o) ==
    /\ UNCHANGED funVars
    /\ Task
    /\ r \in requests
    /\ requests' = requests \ {r}
    /\ IF Unresolved(o)
       THEN UNCHANGED <<view, easeCount>>
       ELSE easeTo(r.map, r.coordinates, o.zoom)
    /\ UNCHANGED <<reqGen, lastClick>>
    /\ UNCHANGED <<lifeVars, mapVars, effectVars, ctxVars, popupVars, cursor, pointerIn>>

(* ------------------------ configured clusterer ------------------------- *)
\* world units of a coordinate per screen pixel at zoom 0
WorldScale == 4096

RECURSIVE Pow2(_)
Pow2(n) == IF n = 0 THEN 1 ELSE 2 * Pow2(n - 1)

Abs(x) == IF x < 0 THEN -x ELSE x

ClusteringApplies_pastMax(z) == z <= clusterMaxZoom + 1

\* cluster: true, clusterMaxZoom: 12 -- "Cluster up to zoom level 12"
ClusteringApplies(z) == z <= clusterMaxZoom

\* two points are within clusterRadius screen pixels of each other at zoom z
Near(a, b, z) == Abs(a - b) * Pow2(z) <= clusterRadius * WorldScale

\* the points of D connected to those of S by chains of near points
RECURSIVE Closure(_, _, _)
Closure(S, D, z) ==
    LET T == S \cup {b \in D : \E a \in S : Near(a, b, z)}
    IN  IF T = S THEN S ELSE Closure(T, D, z)

\* features with a point_count (filter of the 'clusters' layer) at zoom z
Aggregates(D, z) ==
    IF ClusteringApplies(z)
    THEN {C \in {Closure({a}, D, z) : a \in D} : Cardinality(C) >= 2}
    ELSE {}

\* features without a point_count (filter of 'unclustered-point') at zoom z
Singles(D, z) == {a \in D : \A C \in Aggregates(D, z) : a \notin C}

\* the source evaluates its clusters for the data and the zoom it is given
Cluster ==
    /\ cout = NotClustered
    /\ cout' = [aggregates |-> Aggregates(cdata, czoom),
                singles |-> Singles(cdata, czoom)]
    /\ UNCHANGED <<cdata, czoom, contentVars, styleVars>>
    /\ UNCHANGED <<lifeVars, mapVars, effectVars, ctxVars, popupVars, cursor, pointerIn, navVars>>

(* ---------------------------- popup content ---------------------------- *)
Boolean_notNullish(v) == v \notin {"undefined", "null"}

\* Boolean(v), the truthiness that || and filter(Boolean) test: a missing
\* key, null and the empty string are falsy
Boolean(v) == v \notin {"undefined", "null", ""}

\* a || b
Or(a, b) == IF Boolean(a) THEN a ELSE b

\* array.filter(Boolean)
filterBoolean(array) == SelectSeq(array, Boolean)

\* Array.prototype.join
RECURSIVE join(_, _)
join(array, separator) ==
    IF array = <<>> THEN ""
    ELSE IF Len(array) = 1 THEN Head(array)
    ELSE Head(array) \o separator \o join(Tail(array), separator)

\* name and address as the 'mouseenter' handler builds them for popupContent
HoverContent(p) ==
    [name |-> Or(p.name, "Unknown Pharmacy"),
     address |-> Or(Or(p.full_address,
                       join(filterBoolean(<<p.address, p.city, p.state>>), ", ")),
                    "Address not available")]

\* name and address as the 'click' handler builds them for popupContent
ClickContent(p) ==
    [name |-> Or(p.name, "Unknown Pharmacy"),
     address |-> Or(Or(p.full_address,
                       join(filterBoolean(<<p.address, p.city, p.state>>), ", ")),
                    "Address not available")]

\* the hover handler builds the content for the feature it is given
HoverContentBuilt ==
    /\ content.hover = NoContent
    /\ content' = [content EXCEPT !.hover = HoverContent(props)]
    /\ UNCHANGED <<props, clusterVars, styleVars>>
    /\ UNCHANGED <<lifeVars, mapVars, effectVars, ctxVars, popupVars, cursor, pointerIn, navVars>>

\* the click handler builds the content for the feature it is given
ClickContentBuilt ==
    /\ content.click = NoContent
    /\ content' = [content EXCEPT !.click = ClickContent(props)]
    /\ UNCHANGED <<props, clusterVars, styleVars>>
    /\ UNCHANGED <<lifeVars, mapVars, effectVars, ctxVars, popupVars, cursor, pointerIn, navVars>>

(* ----------------------------- cluster paint --------------------------- *)
RECURSIVE Step_strict(_, _, _)
Step_strict(input, output, stops) ==
    IF stops = <<>> \/ input <= Head(stops)[1]
    THEN output
    ELSE Step_strict(input, Head(stops)[2], Tail(stops))

\* ['step', input, output0, stop1, output1, ...]: the output of the last stop
\* that is less than or equal to the input, output0 below the first stop
RECURSIVE Step(_, _, _)
Step(input, output, stops) ==
    IF stops = <<>> \/ input < Head(stops)[1]
    THEN output
    ELSE Step(input, Head(stops)[2], Tail(stops))

\* 'circle-color' of the 'clusters' layer
circleColor(n) == Step(n, "#51bbd6", <<<<100, "#f1f075">>, <<750, "#f28cb1">>>>)

\* 'circle-radius' of the 'clusters' layer
circleRadius(n) == Step(n, 20, <<<<100, 30>>, <<750, 40>>>>)

\* the 'clusters' layer paints the circle of a cluster feature
Paint ==
    /\ style = NoStyle
    /\ style' = [color |-> circleColor(point_count), radius |-> circleRadius(point_count)]
    /\ UNCHANGED <<point_count, clusterVars, contentVars>>
    /\ UNCHANGED <<lifeVars, mapVars, effectVars, ctxVars, popupVars, cursor, pointerIn, navVars>>

(* ---------------------------- specification ---------------------------- *)
\* App, the effect of MapView and the life of the map instances
LifeNext ==
    \/ App
    \/ Resize
    \/ Mount
    \/ EffectCleanup
    \/ EffectRun
    \/ Unmount
    \/ TimerFire
    \/ \E m \in MapIds : MapLoad(m)

\* the WebGL context handlers
ContextNext ==
    \/ \E m \in MapIds : ContextLost(m)
    \/ \E m \in MapIds : ContextRestored(m)

\* the hover, cursor and point-click handlers, for events on the features fs
PopupNextOn(fs) ==
    \/ \E m \in MapIds, e \in EventsOf(fs) : MouseEnterPoint(m, e)
    \/ \E m \in MapIds : MouseLeavePoint(m)
    \/ \E m \in MapIds : MouseEnterCluster(m)
    \/ \E m \in MapIds : MouseLeaveCluster(m)
    \/ \E m \in MapIds : PreClick(m)
    \/ \E m \in MapIds, e \in EventsOf(fs) : ClickPoint(m, e)
    \/ \E p \in popups : ClosePopup(p)

PopupNext == PopupNextOn(PointFeatures)

\* the cluster-click handler and its callback
NavNext ==
    \/ \E m \in MapIds, e \in EventsOf(ClusterFeatures) : ClickCluster(m, e)
    \/ \E r \in requests : \E o \in Outcomes(r.cluster_id) : ExpansionZoomCallback(r, o)

Next == LifeNext \/ ContextNext \/ PopupNext \/ NavNext

\* the whole program
Spec == Init /\ [][Next]_vars

\* The handler groups write disjoint variables (ContextNext: contextLost and
\* reloads; PopupNext: popups, popupGen, cursor, pointerIn; NavNext:
\* requests, reqGen, lastClick, view, easeCount) and are enabled by the life
\* cycle and, for a click handler, by the click popups being closed, so what a
\* group can do to its variables in Spec it can do in the specification made
\* of the life cycle and that group.  Each property is checked under the
\* smallest such specification that holds every action writing a variable
\* the property reads; a property of the life cycle alone is checked with
\* the popup handlers running beside it.
SpecContext == Init /\ [][LifeNext \/ ContextNext]_vars
SpecPopup == Init /\ [][LifeNext \/ PopupNext]_vars
SpecNav == Init /\ [][LifeNext \/ NavNext]_vars
\* navigation beside popups: what a navigation step leaves alone does not
\* depend on where the popups are anchored, so the point events all carry
\* the feature of one pharmacy
OnePoint == {[coordinates |-> 0]}
SpecUI == Init /\ [][LifeNext \/ PopupNextOn(OnePoint) \/ NavNext]_vars

\* what the event loop and the browser guarantee: a pending timer fires, a
\* re-run effect completes, a constructed map loads, a lost context (the map
\* prevents the default of the loss event) is restored.  Nothing obliges the
\* user or the host to act.
FairPopup ==
    /\ SpecPopup
    /\ WF_vars(TimerFire)
    /\ WF_vars(EffectRun)
    /\ \A m \in MapIds : WF_vars(MapLoad(m))

FairContext ==
    /\ SpecContext
    /\ WF_vars(TimerFire)
    /\ WF_vars(EffectRun)
    /\ \A m \in MapIds : WF_vars(MapLoad(m))
    /\ \A m \in MapIds : WF_vars(ContextRestored(m))

\* the program before App has rendered, with the token set and no surface
Unstarted ==
    /\ MAPBOX_TOKEN = "pk.token"
    /\ screen = "none"
    /\ phase = "init"
    /\ containerW = 0
    /\ containerH = 0
    /\ mapRef = 0
    /\ mapGen = 0
    /\ mapState = [m \in MapIds |-> "none"]
    /\ builtSize = [m \in MapIds |-> <<0, 0>>]
    /\ timers = 0
    /\ cleanup = "none"
    /\ contextLost = [m \in MapIds |-> FALSE]
    /\ reloads = [m \in MapIds |-> 0]
    /\ popups = {}
    /\ popupGen = 0
    /\ cursor = [m \in MapIds |-> ""]
    /\ pointerIn = [m \in MapIds |-> {}]
    /\ requests = {}
    /\ reqGen = 0
    /\ lastClick = NoClick
    /\ view = [m \in MapIds |-> InitialView]
    /\ easeCount = [m \in MapIds |-> 0]

\* the clusterer as a function of a data set and a zoom
InitClusterer ==
    /\ Unstarted
    /\ cdata \in SUBSET DataCoordinates
    /\ czoom \in 0..MaxZoomLevel
    /\ cout = NotClustered
    /\ props = EmptyProperties
    /\ content = [hover |-> NoContent, click |-> NoContent]
    /\ point_count = 2
    /\ style = NoStyle

SpecClusterer == InitClusterer /\ [][Cluster]_vars

\* the popup content as a function of the properties of a point feature
InitContent ==
    /\ Unstarted
    /\ cdata = {}
    /\ czoom = InitialZoom
    /\ cout = NotClustered
    /\ props \in Properties
    /\ content = [hover |-> NoContent, click |-> NoContent]
    /\ point_count = 2
    /\ style = NoStyle

SpecContent == InitContent /\ [][HoverContentBuilt \/ ClickContentBuilt]_vars

\* the paint of a cluster circle as a function of its point_count
InitStyle ==
    /\ Unstarted
    /\ cdata = {}
    /\ czoom = InitialZoom
    /\ cout = NotClustered
    /\ props = EmptyProperties
    /\ content = [hover |-> NoContent, click |-> NoContent]
    /\ point_count \in PointCounts
    /\ style = NoStyle

SpecStyle == InitStyle /\ [][Paint]_vars

(* ------------------------------ properties ----------------------------- *)
HoverTooltips(m) == {p \in popups : p.map = m /\ p.inst[1] = "hover"}
ClickPopups == {p \in popups : p.inst[1] = "click"}

\* C1: on every map at most one hover tooltip is live, and a hover-enter
\* that carries a point leaves exactly one live hover tooltip, anchored at
\* that point, whatever tooltip was open before it
C1_HoverExclusive ==
    /\ [](\A m \in MapIds : Cardinality(HoverTooltips(m)) <= 1)
    /\ [][\A m \in MapIds, e \in EventsOf(PointFeatures) :
            (MouseEnterPoint(m, e) /\ e.hasFeatures /\ e.features # <<>>)
            => /\ Cardinality(HoverTooltips(m)') = 1
               /\ \A p \in HoverTooltips(m)' :
                     p.anchor = e.features[1].coordinates]_vars

\* a hover-enter on B has replaced the tooltip that a hover-enter on A opened:
\* the tooltip is at the second pharmacy, where only a later enter can put it
C1_Witness ==
    \E m \in MapIds : \E p \in HoverTooltips(m) :
        /\ p.anchor = 10
        /\ cursor[m] = "pointer"

\* C2: no hover-enter or hover-leave event on the point layer dismisses a
\* popup that a click opened
C2_ClickPopupSurvivesHover ==
    [][(\/ \E m \in MapIds, e \in EventsOf(PointFeatures) : MouseEnterPoint(m, e)
        \/ \E m \in MapIds : MouseLeavePoint(m))
       => ClickPopups \subseteq ClickPopups']_vars

\* a click popup is live on a map whose hover tooltip has been opened too
C2_Witness ==
    \E m \in MapIds :
        /\ \E p \in ClickPopups : p.map = m
        /\ HoverTooltips(m) # {}
        /\ cursor[m] = "pointer"

C5_TokenGate ==
    /\ MAPBOX_TOKEN \in {"undefined", ""}
       => /\ screen \in {"none", "error"}
          /\ phase = "init"
          /\ mapGen = 0
          /\ timers = 0
    /\ (MAPBOX_TOKEN \notin {"undefined", ""} /\ screen # "none")
       => screen = "map"

\* App has rendered with an empty token
C5_Witness == MAPBOX_TOKEN = "" /\ screen = "error"

\* C6: every map instance was constructed while the container had a
\* nonzero width and a nonzero height
C6_BuiltOnSizedSurface ==
    \A m \in MapIds :
        mapState[m] # "none" => (builtSize[m][1] > 0 /\ builtSize[m][2] > 0)

\* a map constructed by the delayed retry (the effect took the timer path)
C6_Witness ==
    \E m \in MapIds : mapState[m] # "none" /\ cleanup = "clearTimeout"

\* C7: whenever the mounted component has no map yet and its surface is
\* sized, the map is eventually initialized (unless the component is
\* unmounted or the surface loses its size again first)
C7_EventuallyInitialized ==
    (phase = "mounted" /\ mapRef = 0 /\ mapGen < MaxMaps /\ HasSize)
    ~> (mapRef # 0 \/ phase # "mounted" \/ ~HasSize)

C9_NewerSupersedes ==
    \A m \in MapIds :
        (/\ mapState[m] = "loaded"
         /\ reqGen >= 2
         /\ requests = {}
         /\ easeCount[m] = reqGen)
        => view[m] = [center |-> lastClick.coordinates,
                      zoom |-> ExpansionZoomOf[lastClick.cluster_id]]

\* C10 as stated: evaluated at a zoom of 12 or more, the clusterer produces
\* no aggregate and every point is a single
C10_NoClusterFromMaxZoom ==
    (cout # NotClustered /\ czoom >= 12)
    => (cout.aggregates = {} /\ cout.singles = cdata)

\* C10 amended: past zoom 12 the clusterer produces no aggregate and every
\* point is a single; aggregates exist only at zoom <= 12, zoom 12 included
C10_NoClusterPastMaxZoom ==
    cout # NotClustered
    => /\ czoom > 12 => (cout.aggregates = {} /\ cout.singles = cdata)
       /\ cout.aggregates # {} => czoom <= 12
       /\ (czoom = 12 /\ \E a, b \in cdata : a # b /\ Near(a, b, 12))
          => cout.aggregates # {}

\* the clusterer was evaluated at zoom 13 on data holding two pharmacies
\* that are within the cluster radius of each other at that zoom
C10_Witness ==
    /\ cout # NotClustered
    /\ czoom = 13
    /\ \E a, b \in cdata : a # b /\ Near(a, b, 13)

\* C11: the displayed name is the name property when it is a non-empty text
\* and "Unknown Pharmacy" otherwise; the displayed address is full_address
\* when non-empty, else the non-empty ones of address, city and state joined
\* by ", " in that order, else "Address not available"; the hover tooltip
\* and the click popup show the same content for the same properties
C11_ContentFallback ==
    LET E(v) == v \in {"undefined", "null", ""}
        a == props.address
        c == props.city
        s == props.state
        name == IF E(props.name) THEN "Unknown Pharmacy" ELSE props.name
        parts ==
            CASE ~E(a) /\ ~E(c) /\ ~E(s) -> a \o ", " \o c \o ", " \o s
              [] ~E(a) /\ ~E(c) /\ E(s) -> a \o ", " \o c
              [] ~E(a) /\ E(c) /\ ~E(s) -> a \o ", " \o s
              [] E(a) /\ ~E(c) /\ ~E(s) -> c \o ", " \o s
              [] ~E(a) /\ E(c) /\ E(s) -> a
              [] E(a) /\ ~E(c) /\ E(s) -> c
              [] E(a) /\ E(c) /\ ~E(s) -> s
              [] E(a) /\ E(c) /\ E(s) -> "Address not available"
        address == IF E(props.full_address) THEN parts ELSE props.full_address
        expected == [name |-> name, address |-> address]
    IN  /\ content.hover # NoContent => content.hover = expected
        /\ content.click # NoContent => content.click = expected

\* both handlers have built the content of a record with a null name, no
\* full_address, and address, city and state set
C11_Witness ==
    /\ props = [name |-> "null", full_address |-> "undefined",
                address |-> "1 Main St", city |-> "Springfield", state |-> "OH"]
    /\ content.hover = [name |-> "Unknown Pharmacy",
                        address |-> "1 Main St, Springfield, OH"]
    /\ content.click = content.hover

\* C12: color and radius of a cluster circle are step functions of its
\* point_count with the same two boundaries: below 100 the first color and
\* 20px, from 100 up to 749 the second color and 30px, from 750 on the
\* third color and 40px; no smaller count has a larger radius
C12_ClusterStyleSteps ==
    style # NoStyle
    => /\ point_count < 100
          => style = [color |-> "#51bbd6", radius |-> 20]
       /\ (100 <= point_count /\ point_count < 750)
          => style = [color |-> "#f1f075", radius |-> 30]
       /\ point_count >= 750
          => style = [color |-> "#f28cb1", radius |-> 40]
       /\ \A k \in PointCounts : k <= point_count => circleRadius(k) <= style.radius

\* a cluster of exactly 100 points and one of exactly 750 points were painted
C12_Witness ==
    /\ style # NoStyle
    /\ point_count \in {100, 750}
    /\ style.radius \in {30, 40}

\* C13: a hover-leave on the point layer leaves no hover tooltip live on
\* the map, and a map without a live hover tooltip gets one only by a
\* hover-enter that carries a feature
C13_LeaveReturnsToIdle ==
    [][\A m \in MapIds :
        /\ MouseLeavePoint(m) => HoverTooltips(m)' = {}
        /\ (HoverTooltips(m) = {} /\ HoverTooltips(m)' # {})
           => \E e \in EventsOf(PointFeatures) :
                 /\ e.hasFeatures /\ e.features # <<>>
                 /\ MouseEnterPoint(m, e)]_vars

\* the pointer has left the point layer while it stayed inside the cluster
\* layer: the hover-leave has run and no tooltip is live
C13_Witness ==
    \E m \in MapIds :
        /\ mapState[m] = "loaded"
        /\ pointerIn[m] = {"clusters"}
        /\ cursor[m] = ""
        /\ HoverTooltips(m) = {}

\* C14 as stated: no click on the map, neither the listeners that run
\* before the click handlers nor the handler of a click on a single point,
\* closes a popup that an earlier click opened
C14_ClickPopupsCoexist ==
    [][\A m \in MapIds :
        (\/ PreClick(m)
         \/ \E e \in EventsOf(PointFeatures) : ClickPoint(m, e))
        => ClickPopups \subseteq ClickPopups']_vars

\* C14 amended: the handler of a click on a single point adds one new popup
\* instance at the point and closes nothing itself, but the click has closed
\* the popups earlier clicks opened on that map before the handler runs: at
\* most one click popup is live per map
C14_ClickPopupsExclusive ==
    /\ [](\A m \in MapIds : Cardinality({p \in ClickPopups : p.map = m}) <= 1)
    /\ [][\A m \in MapIds, e \in EventsOf(PointFeatures) :
            (ClickPoint(m, e) /\ e.hasFeatures /\ e.features # <<>>)
            => /\ {p \in ClickPopups : p.map = m} = {}
               /\ \E p \in popups' \ popups :
                     /\ popups' = popups \cup {p}
                     /\ p.inst[1] = "click"
                     /\ p.anchor = e.features[1].coordinates
                     /\ p.map = m
                     /\ \A q \in popups : q.inst # p.inst]_vars

\* the second click on a point of the first map: its popup is the only
\* click popup live
C14_Witness ==
    /\ mapGen = 1
    /\ popupGen = 2
    /\ \E p \in ClickPopups : p.inst = <<"click", 2>> /\ ClickPopups = {p}

\* C15: at most one retry timer is pending at any time and it belongs to
\* the mounted component whose cleanup cancels it; only the effect body
\* schedules a timer, one at a time; the timer callback schedules none; no
\* timer is pending once the component is unmounted
C15_RetryBoundedAndOwned ==
    /\ [](timers <= 1)
    /\ [](timers > 0 => (phase = "mounted" /\ cleanup = "clearTimeout"))
    /\ [](phase = "unmounted" => timers = 0)
    /\ [][/\ TimerFire => timers' = timers - 1
          /\ timers' > timers
             => /\ timers' = timers + 1
                /\ Mount \/ EffectRun
                /\ NoDimensions]_vars

\* the component was mounted on a surface without a size: its retry is pending
C15_Witness ==
    /\ phase = "mounted"
    /\ timers = 1
    /\ mapGen = 0

C17_DisposedAfterCleanup ==
    phase = "unmounted"
    => (mapRef = 0 /\ \A m \in MapIds : ~Alive(m))

\* C18 as stated: the callback of a request whose map has been removed
\* issues no easeTo
C18_NoEaseAfterTeardown ==
    [][\A r \in requests :
        ((\E o \in Outcomes(r.cluster_id) : ExpansionZoomCallback(r, o))
         /\ mapState[r.map] = "removed")
        => easeCount' = easeCount]_vars

\* C19: at most one map instance is constructed and not removed, and it is
\* the one map.current holds; an instance is constructed once, loads (and
\* so gets its source, layers and handlers) once, and never comes back
\* after its removal
C19_SingleInitialization ==
    /\ [](Cardinality({m \in MapIds : Alive(m)}) <= 1)
    /\ [](\A m \in MapIds : Alive(m) => mapRef = m)
    /\ [][\A m \in MapIds :
            /\ (mapState'[m] = "created" /\ mapState[m] # "created")
               => mapState[m] = "none"
            /\ (mapState'[m] = "loaded" /\ mapState[m] # "loaded")
               => mapState[m] = "created"
            /\ mapState[m] = "removed" => mapState'[m] = "removed"]_vars

\* the effect was re-run: the first instance is removed and a second one
\* is constructed
C19_Witness ==
    /\ mapState[1] = "removed"
    /\ Alive(2)
    /\ mapRef = 2

\* C20 as stated: on a loaded map the cursor is 'pointer' exactly when the
\* pointer is inside the cluster layer or the point layer
C20_CursorTracksPointer ==
    \A m \in MapIds :
        mapState[m] = "loaded"
        => (cursor[m] = "pointer" <=> pointerIn[m] # {})

====
